---- MODULE Spec2Model ----
(***************************************************************************)
(* The Cobra Shot cooldown-reduction accountant                            *)
(* (parser/hunter/beastmastery/modules/spells/CobraShot.tsx).              *)
(*                                                                         *)
(* The analyzer listens to Cobra Shot casts of the selected player and     *)
(* keeps four running totals.  It reads and commands the Kill Command      *)
(* cooldown held by the SpellUsable module and reads the global cooldown   *)
(* duration from the GlobalCooldown module.  Those two modules and the     *)
(* constants file are outside the analyzer's own file: they are modelled   *)
(* by their interface (isOnCooldown, cooldownRemaining, reduceCooldown     *)
(* returning the amount applied, getGlobalCooldownDuration).               *)
(***************************************************************************)
EXTENDS Integers, Sequences, FiniteSets

VARIABLES
    effectiveKCReductionMs, \* CobraShot.effectiveKCReductionMs
    wastedKCReductionMs,    \* CobraShot.wastedKCReductionMs
    wastedCasts,            \* CobraShot.wastedCasts
    casts,                  \* CobraShot.casts
    kcOnCooldown,           \* SpellUsable: is Kill Command on cooldown
    kcRemaining,            \* SpellUsable: Kill Command's remaining cooldown, ms
    event,                  \* the cast event last handled, as the handler left it
    last,                   \* what the last invocation of the handler read and did
    onCooldownCasts,        \* history: invocations that found Kill Command on cooldown
    reduceCommands,         \* history: reduceCooldown calls made
    unappliedMs             \* history: sum of (requested - applied) over the calls

vars == <<effectiveKCReductionMs, wastedKCReductionMs, wastedCasts, casts,
          kcOnCooldown, kcRemaining, event, last, onCooldownCasts,
          reduceCommands, unappliedMs>>

--------------------------------------------------------------------------
(* Bounds of the model *)

MaxCasts == 3

(* Constants of the program *)

COBRA_SHOT_CDR_MS == 1000

COBRA_SHOT_FOCUS_THRESHOLD_TO_WAIT == 50

\* a reason message: its text, and the two numbers the low-focus text embeds
Reason(text, cutoffTenths, focus) ==
    [text |-> text, cutoffTenths |-> cutoffTenths, focus |-> focus]

\* event.meta === undefined
UndefinedMeta ==
    [defined |-> FALSE, isInefficientCast |-> FALSE,
     inefficientCastReason |-> Reason("", 0, 0)]

\* event.classResources === undefined
UndefinedClassResources == [defined |-> FALSE, list |-> << >>]

\* the result of find() when no element matches
UndefinedResource == [type |-> "undefined", amount |-> 0]

ClassResources(list) == [defined |-> TRUE, list |-> list]

FOCUS == "FOCUS"

ENERGY == "ENERGY"

NotOnCooldownReason ==
    Reason("Cobra Shot cast while Kill Command is not on cooldown.", 0, 0)

--------------------------------------------------------------------------
(* The environment's inputs *)

\* getGlobalCooldownDuration(COBRA_SHOT): the hasted global cooldown, ms
GcdDurations == {1000, 1500}

\* the cooldown a Kill Command cast starts, ms
KillCommandCooldowns == {3000, 4000}

\* time elapsed between two events, ms
Elapsed == {500, 1000}

\* event.meta as it arrives: not yet set, or set by an earlier listener
IncomingMeta ==
    { UndefinedMeta,
      [defined |-> TRUE, isInefficientCast |-> TRUE,
       inefficientCastReason |-> Reason("set by another module", 0, 0)] }

\* event.classResources as it arrives: absent, or a list of {type, amount}
IncomingClassResources ==
    { UndefinedClassResources,
      ClassResources(<< [type |-> ENERGY, amount |-> 10] >>),
      ClassResources(<< [type |-> ENERGY, amount |-> 10],
                        [type |-> FOCUS, amount |-> 49] >>),
      ClassResources(<< [type |-> FOCUS, amount |-> 50],
                        [type |-> ENERGY, amount |-> 10] >>) }

--------------------------------------------------------------------------
(* SpellUsable and its cooldown state *)

Max(a, b) == IF a >= b THEN a ELSE b

Min(a, b) == IF a <= b THEN a ELSE b

\* the amounts a reduceCooldown call is let to report in this model, ms
ReportedAmounts == {-1500, -1000, -500, 0, 500, 1000, 1500, 2000}

\* reduceCooldown(id, amountMs) -> appliedMs: the amounts the collaborator may
\* report as applied: all of the request, or any amount between none of it
\* and all of it.
ReduceCooldownReports(amount) ==
    {amount} \cup {a \in ReportedAmounts : Min(amount, 0) <= a /\ a <= Max(amount, 0)}

\* the cooldown state after applying `applied` ms of reduction
CooldownAfter(rem, applied) ==
    IF rem - applied > 0
    THEN [onCooldown |-> TRUE, remaining |-> rem - applied]
    ELSE [onCooldown |-> FALSE, remaining |-> 0]

--------------------------------------------------------------------------
(* The analyzer's derived values and the pieces of its handler *)

\* line 46-48: get totalPossibleCDR
TotalPossibleCDRWithoutFloor == casts * COBRA_SHOT_CDR_MS

totalPossibleCDR == Max(casts * COBRA_SHOT_CDR_MS, 1)

\* line 79-84: the meta bag is created when the event has none
EnsureMeta(meta) ==
    IF ~meta.defined
    THEN [defined |-> TRUE, isInefficientCast |-> FALSE,
          inefficientCastReason |-> Reason("", 0, 0)]
    ELSE meta

\* line 87: the wasted-cast counter after a cast with Kill Command available
WastedCastsNoIncrement(n) == n

WastedCastsAfterWaste(n) == n + 1

\* line 88: the wasted reduction after a cast with Kill Command available
WastedReductionUnchanged(w) == w

WastedReductionAfterWaste(w) == w + COBRA_SHOT_CDR_MS

\* line 96: would the full reduction overflow past the next global cooldown
IsOverflowIgnoringGcd(rem, gcd) == rem < COBRA_SHOT_CDR_MS

IsOverflow(rem, gcd) == rem < COBRA_SHOT_CDR_MS + gcd

\* line 97-98: the capped reduction of the overflow branch
UncappedReductionMs(rem, gcd) == COBRA_SHOT_CDR_MS

RemainingAsReductionMs(rem, gcd) == rem

ClampedReductionMs(rem, gcd) == IF rem - gcd < 0 THEN 0 ELSE rem - gcd

EffectiveReductionMs(rem, gcd) == rem - gcd

\* line 100: what the overflow branch adds to wastedKCReductionMs
WastedNothing(reduction) == 0

WastedOnOverflow(reduction) == COBRA_SHOT_CDR_MS - reduction

\* line 102: classResources?.find(resource => resource.type === FOCUS)
RECURSIVE FindFrom(_, _)
FindFrom(rs, i) ==
    IF i > Len(rs) THEN UndefinedResource
    ELSE IF rs[i].type = FOCUS THEN rs[i]
    ELSE FindFrom(rs, i + 1)

FindFocus(classResources) ==
    IF ~classResources.defined THEN UndefinedResource
    ELSE FindFrom(classResources.list, 1)

\* line 106: the low-focus test
IsLowFocusInclusive(resource) == resource.amount <= COBRA_SHOT_FOCUS_THRESHOLD_TO_WAIT

IsLowFocus(resource) == resource.amount < COBRA_SHOT_FOCUS_THRESHOLD_TO_WAIT

\* line 108: (globalCooldown + COBRA_SHOT_CDR_MS / 1000).toFixed(1), as the
\* number of tenths the printed decimal stands for
CutoffTenths(gcd) == gcd * 10 + (COBRA_SHOT_CDR_MS * 10) \div 1000

\* line 108: the reason message, as its parts
LowFocusReason(gcd, resource) ==
    Reason("Cobra Shot cast while Kill Command's cooldown was under <cutoff>s remaining and you were not close to capping focus as you only had <focus> focus.",
           CutoffTenths(gcd), resource.amount)

NoCall ==
    [branch |-> "none", remaining |-> 0, gcd |-> 0, requested |-> 0,
     applied |-> 0, commanded |-> FALSE, annotated |-> FALSE,
     resourceConsulted |-> FALSE]

--------------------------------------------------------------------------
Init ==
    /\ effectiveKCReductionMs = 0
    /\ wastedKCReductionMs = 0
    /\ wastedCasts = 0
    /\ casts = 0
    /\ kcOnCooldown = FALSE
    /\ kcRemaining = 0
    /\ event = [meta |-> UndefinedMeta, classResources |-> UndefinedClassResources]
    /\ last = NoCall
    /\ onCooldownCasts = 0
    /\ reduceCommands = 0
    /\ unappliedMs = 0

\* onCobraShotCast, Kill Command not on cooldown (lines 79-92)
CastWasted(meta, classResources) ==
    /\ ~kcOnCooldown
    /\ casts' = casts + 1
    /\ wastedCasts' = WastedCastsAfterWaste(wastedCasts)
    /\ wastedKCReductionMs' = WastedReductionAfterWaste(wastedKCReductionMs)
    /\ event' = [meta |-> [defined |-> TRUE, isInefficientCast |-> TRUE,
                           inefficientCastReason |-> NotOnCooldownReason],
                 classResources |-> classResources]
    /\ last' = [NoCall EXCEPT !.branch = "notOnCooldown", !.annotated = TRUE]
    /\ UNCHANGED <<effectiveKCReductionMs, kcOnCooldown, kcRemaining,
                   onCooldownCasts, reduceCommands, unappliedMs>>

\* onCobraShotCast, overflow branch (lines 79-86, 93-109)
CastOverflow(meta, classResources, gcd) ==
    /\ kcOnCooldown
    /\ IsOverflow(kcRemaining, gcd)
    /\ LET effectiveReductionMs == EffectiveReductionMs(kcRemaining, gcd)
           resource == FindFocus(classResources)
           low == resource # UndefinedResource /\ IsLowFocus(resource)
           m == EnsureMeta(meta)
       IN \E applied \in ReduceCooldownReports(effectiveReductionMs) :
            LET after == CooldownAfter(kcRemaining, applied) IN
            /\ casts' = casts + 1
            /\ effectiveKCReductionMs' = effectiveKCReductionMs + applied
            /\ wastedKCReductionMs' =
                   wastedKCReductionMs + WastedOnOverflow(effectiveReductionMs)
            /\ kcOnCooldown' = after.onCooldown
            /\ kcRemaining' = after.remaining
            /\ event' = [meta |-> IF low
                                  THEN [defined |-> TRUE,
                                        isInefficientCast |-> TRUE,
                                        inefficientCastReason |->
                                            LowFocusReason(gcd, resource)]
                                  ELSE m,
                         classResources |-> classResources]
            /\ last' = [branch |-> "overflow", remaining |-> kcRemaining,
                        gcd |-> gcd, requested |-> effectiveReductionMs,
                        applied |-> applied, commanded |-> TRUE,
                        annotated |-> low, resourceConsulted |-> TRUE]
            /\ onCooldownCasts' = onCooldownCasts + 1
            /\ reduceCommands' = reduceCommands + 1
            /\ unappliedMs' = unappliedMs + (effectiveReductionMs - applied)
            /\ UNCHANGED wastedCasts

\* onCobraShotCast, full-reduction branch (lines 79-86, 93-96, 110-112)
CastFull(meta, classResources, gcd) ==
    /\ kcOnCooldown
    /\ ~IsOverflow(kcRemaining, gcd)
    /\ \E applied \in ReduceCooldownReports(COBRA_SHOT_CDR_MS) :
         LET after == CooldownAfter(kcRemaining, applied) IN
         /\ casts' = casts + 1
         /\ effectiveKCReductionMs' = effectiveKCReductionMs + applied
         /\ kcOnCooldown' = after.onCooldown
         /\ kcRemaining' = after.remaining
         /\ event' = [meta |-> EnsureMeta(meta), classResources |-> classResources]
         /\ last' = [branch |-> "full", remaining |-> kcRemaining, gcd |-> gcd,
                     requested |-> COBRA_SHOT_CDR_MS, applied |-> applied,
                     commanded |-> TRUE, annotated |-> FALSE,
                     resourceConsulted |-> FALSE]
         /\ onCooldownCasts' = onCooldownCasts + 1
         /\ reduceCommands' = reduceCommands + 1
         /\ unappliedMs' = unappliedMs + (COBRA_SHOT_CDR_MS - applied)
         /\ UNCHANGED <<wastedKCReductionMs, wastedCasts>>

\* CobraShot.onCobraShotCast(event): one Cobra Shot cast of the selected player
onCobraShotCast ==
    /\ casts < MaxCasts
    /\ \E meta \in IncomingMeta, classResources \in IncomingClassResources,
          gcd \in GcdDurations :
         IF ~kcOnCooldown THEN CastWasted(meta, classResources)
         ELSE IF IsOverflow(kcRemaining, gcd)
              THEN CastOverflow(meta, classResources, gcd)
              ELSE CastFull(meta, classResources, gcd)

\* the player casts Kill Command: SpellUsable begins its cooldown
KillCommandCast ==
    /\ ~kcOnCooldown
    /\ \E cd \in KillCommandCooldowns :
         /\ kcOnCooldown' = TRUE
         /\ kcRemaining' = cd
    /\ UNCHANGED <<effectiveKCReductionMs, wastedKCReductionMs, wastedCasts,
                   casts, event, last, onCooldownCasts, reduceCommands,
                   unappliedMs>>

\* time passes between events: the remaining cooldown runs down and ends
TimePasses ==
    /\ kcOnCooldown
    /\ \E dt \in Elapsed :
         LET after == CooldownAfter(kcRemaining, dt) IN
         /\ kcOnCooldown' = after.onCooldown
         /\ kcRemaining' = after.remaining
    /\ UNCHANGED <<effectiveKCReductionMs, wastedKCReductionMs, wastedCasts,
                   casts, event, last, onCooldownCasts, reduceCommands,
                   unappliedMs>>

Next ==
    \/ onCobraShotCast
    \/ KillCommandCast
    \/ TimePasses

Spec == Init /\ [][Next]_vars

--------------------------------------------------------------------------
(* Properties of the accountant *)

\* C1: after any sequence of onCobraShotCast invocations, casts equals
\* wastedCasts plus the number of invocations that found Kill Command on
\* cooldown: every cast is counted in exactly one of the two cases.
C1_CastsPartition == casts = wastedCasts + onCooldownCasts

C1_Witness == wastedCasts >= 1 /\ onCooldownCasts >= 1

\* C2, as stated: whatever the collaborator reports, the effective and the
\* wasted reduction together make up COBRA_SHOT_CDR_MS for every cast.
C2_SumIsCdrPerCast ==
    effectiveKCReductionMs + wastedKCReductionMs = casts * COBRA_SHOT_CDR_MS

\* C2, amended: the effective and the wasted reduction together make up
\* COBRA_SHOT_CDR_MS for every cast, less whatever part of the requested
\* reduction the collaborator reported as not applied.
C2_SumIsCdrLessUnapplied ==
    effectiveKCReductionMs + wastedKCReductionMs
        = casts * COBRA_SHOT_CDR_MS - unappliedMs

C2_Witness == casts >= 2 /\ unappliedMs > 0 /\ last.applied = last.requested /\ last.commanded

\* C3: the effective reduction never exceeds casts * COBRA_SHOT_CDR_MS, the
\* collaborator never reporting more than was requested of it.
C3_EffectiveAtMostPossible ==
    effectiveKCReductionMs <= casts * COBRA_SHOT_CDR_MS

C3_Witness == casts >= 2 /\ effectiveKCReductionMs = casts * COBRA_SHOT_CDR_MS

\* C4: in every reachable state the efficiency ratio
\* effectiveKCReductionMs / totalPossibleCDR lies in [0, 1].
C4_RatioInUnitInterval ==
    0 <= effectiveKCReductionMs /\ effectiveKCReductionMs <= totalPossibleCDR

\* C5: whenever the handler commands reduceCooldown, the amount it requests is
\* no greater than the remaining cooldown it read in that invocation.
C5_RequestAtMostRemaining ==
    last.commanded => last.requested <= last.remaining

C5_Witness ==
    last.commanded /\ last.branch = "overflow" /\ last.requested > 0
        /\ last.requested < COBRA_SHOT_CDR_MS

\* C6: as long as no cast has found Kill Command on cooldown, every cast is a
\* wasted cast, no reduction is effective and reduceCooldown was never called.
C6_NeverOnCooldown ==
    onCooldownCasts = 0 =>
        /\ wastedCasts = casts
        /\ effectiveKCReductionMs = 0
        /\ reduceCommands = 0

C6_Witness == casts >= 2 /\ onCooldownCasts = 0 /\ kcOnCooldown

\* C7: a cast made while Kill Command is not on cooldown adds 1 to casts and
\* to wastedCasts and COBRA_SHOT_CDR_MS to wastedKCReductionMs, marks the
\* event inefficient with the fixed reason, and does nothing else: the
\* effective reduction and the cooldown state stay as they are, reduceCooldown
\* is not called and the resource snapshot is not looked at.
C7_WastedCastEffect ==
    [][(casts' = casts + 1 /\ ~kcOnCooldown) =>
        /\ wastedCasts' = wastedCasts + 1
        /\ wastedKCReductionMs' = wastedKCReductionMs + COBRA_SHOT_CDR_MS
        /\ event'.meta.isInefficientCast
        /\ event'.meta.inefficientCastReason = NotOnCooldownReason
        /\ effectiveKCReductionMs' = effectiveKCReductionMs
        /\ kcOnCooldown' = kcOnCooldown
        /\ kcRemaining' = kcRemaining
        /\ reduceCommands' = reduceCommands
        /\ ~last'.commanded
        /\ ~last'.resourceConsulted]_vars

C7_Witness ==
    /\ last.branch = "notOnCooldown"
    /\ wastedCasts >= 1
    /\ event.meta.inefficientCastReason = NotOnCooldownReason
    /\ event.classResources.defined

\* C8: a cast made while Kill Command is on cooldown with R remaining and a
\* global cooldown of G requests min(COBRA_SHOT_CDR_MS, R - G) of the
\* collaborator and adds COBRA_SHOT_CDR_MS less that request to
\* wastedKCReductionMs; wastedCasts stays.  R = 2000, G = 1500 requests 500 and
\* wastes 500; R = 4000, G = 1500 requests 1000 and wastes nothing.
C8_RequestAndShortfall ==
    [][(casts' = casts + 1 /\ kcOnCooldown) =>
        LET R == kcRemaining
            G == last'.gcd
            requested == last'.requested
        IN /\ last'.commanded
           /\ last'.remaining = R
           /\ requested = Min(COBRA_SHOT_CDR_MS, R - G)
           /\ wastedKCReductionMs' =
                  wastedKCReductionMs + (COBRA_SHOT_CDR_MS - requested)
           /\ wastedCasts' = wastedCasts
           /\ effectiveKCReductionMs' = effectiveKCReductionMs + last'.applied
           /\ (R < COBRA_SHOT_CDR_MS + G => requested = R - G)
           /\ (R >= COBRA_SHOT_CDR_MS + G =>
                  /\ requested = COBRA_SHOT_CDR_MS
                  /\ wastedKCReductionMs' = wastedKCReductionMs)
           /\ (R = 2000 /\ G = 1500 =>
                  /\ requested = 500
                  /\ wastedKCReductionMs' = wastedKCReductionMs + 500)
           /\ (R = 4000 /\ G = 1500 =>
                  /\ requested = 1000
                  /\ wastedKCReductionMs' = wastedKCReductionMs)]_vars

C8_Witness ==
    /\ last.branch = "overflow"
    /\ last.remaining = 2000
    /\ last.gcd = 1500
    /\ last.requested = 500
    /\ last.applied = 500
    /\ effectiveKCReductionMs = 500
    /\ wastedKCReductionMs = 500

\* C9: none of the four counters ever goes down.
C9_CountersMonotonic ==
    [][/\ effectiveKCReductionMs' >= effectiveKCReductionMs
       /\ wastedKCReductionMs' >= wastedKCReductionMs
       /\ wastedCasts' >= wastedCasts
       /\ casts' >= casts]_vars

\* the focus entry of a resource snapshot, if it has one
HasFocusEntry(classResources) ==
    /\ classResources.defined
    /\ \E i \in 1..Len(classResources.list) : classResources.list[i].type = FOCUS

HasLowFocusEntry(classResources) ==
    /\ classResources.defined
    /\ \E i \in 1..Len(classResources.list) :
         /\ classResources.list[i].type = FOCUS
         /\ classResources.list[i].amount < COBRA_SHOT_FOCUS_THRESHOLD_TO_WAIT

\* C10: a cast of the overflow branch is marked inefficient by the handler
\* exactly when the event's resource snapshot has a focus entry below
\* COBRA_SHOT_FOCUS_THRESHOLD_TO_WAIT; with no such entry the handler marks
\* nothing, and the counters and the cooldown reduction are updated the same
\* way with or without the entry.
C10_LowFocusAnnotation ==
    [][(casts' = casts + 1 /\ kcOnCooldown /\ last'.branch = "overflow") =>
        /\ last'.annotated <=> HasLowFocusEntry(event'.classResources)
        /\ last'.annotated => event'.meta.isInefficientCast
        /\ last'.commanded
        /\ last'.requested = kcRemaining - last'.gcd
        /\ effectiveKCReductionMs' = effectiveKCReductionMs + last'.applied
        /\ wastedKCReductionMs' =
               wastedKCReductionMs + COBRA_SHOT_CDR_MS - last'.requested
        /\ wastedCasts' = wastedCasts
        /\ kcRemaining' = Max(kcRemaining - last'.applied, 0)]_vars

C10_Witness ==
    /\ last.branch = "overflow"
    /\ ~HasFocusEntry(event.classResources)
    /\ ~last.annotated
    /\ last.commanded
    /\ last.applied > 0
    /\ effectiveKCReductionMs > 0


\* C11: totalPossibleCDR is casts * COBRA_SHOT_CDR_MS floored at 1: it is 1
\* when no cast has been recorded, casts * COBRA_SHOT_CDR_MS once one has, and
\* so never 0, and the efficiency division never divides by zero.
C11_TotalPossibleFloor ==
    /\ casts = 0 => totalPossibleCDR = 1
    /\ casts >= 1 => totalPossibleCDR = casts * COBRA_SHOT_CDR_MS
    /\ totalPossibleCDR >= 1

C11_Witness == casts = 0 /\ totalPossibleCDR = 1 /\ kcOnCooldown

\* C12: a cast made while Kill Command is on cooldown with less remaining than
\* the global cooldown lasts takes the overflow branch, requests the negative
\* amount remaining - gcd of reduceCooldown as it is, and adds more than
\* COBRA_SHOT_CDR_MS to wastedKCReductionMs.
C12_NegativeReductionUnclamped ==
    [][(casts' = casts + 1 /\ kcOnCooldown /\ kcRemaining < last'.gcd) =>
        /\ last'.branch = "overflow"
        /\ last'.commanded
        /\ last'.requested = kcRemaining - last'.gcd
        /\ last'.requested < 0
        /\ wastedKCReductionMs' > wastedKCReductionMs + COBRA_SHOT_CDR_MS
        /\ wastedKCReductionMs' =
               wastedKCReductionMs + COBRA_SHOT_CDR_MS + (last'.gcd - kcRemaining)]_vars

C12_Witness ==
    /\ last.branch = "overflow"
    /\ last.remaining < last.gcd
    /\ last.requested < 0
    /\ wastedKCReductionMs > casts * COBRA_SHOT_CDR_MS

\* C13: the reason of an overflow cast marked for low focus cites, as the
\* remaining-cooldown cutoff, the branch threshold COBRA_SHOT_CDR_MS plus the
\* global cooldown in seconds (to one decimal), and cites the focus amount of
\* the event's snapshot.
C13_ReasonCitesThresholdAndFocus ==
    (last.branch = "overflow" /\ last.annotated) =>
        /\ event.meta.inefficientCastReason.cutoffTenths * 100
               = COBRA_SHOT_CDR_MS + last.gcd
        /\ \E i \in 1..Len(event.classResources.list) :
             /\ event.classResources.list[i].type = FOCUS
             /\ event.classResources.list[i].amount
                    = event.meta.inefficientCastReason.focus

====
